---- MODULE Spec2Model ----
(***************************************************************************)
(* A model of converter/main.py: the conversion of yearly country-boundary *)
(* GeoJSON datasets to shapefiles with an oid, a Chinese title and an      *)
(* English title_en per feature, the Chinese titles coming from the tags   *)
(* or from a translation cache primed once for all years.                  *)
(*                                                                         *)
(* Text is a sequence of code points.  A Python value that the code only   *)
(* inspects by type is a record [t, js, m]: t its Python type, m the       *)
(* content of a dict, js what a str denotes when it is read as JSON.       *)
(***************************************************************************)
EXTENDS Integers, Sequences, FiniteSets, TLC

VARIABLES
    start, end,          \* args.start, args.end
    files,               \* INPUT_DIR: year -> the GeoJSON dataset, if any
    pc,                  \* where main is
    year,                \* the loop variable of the phase in progress
    needs_translation,   \* main's list of labels to translate
    unique,              \* prime_translation_cache's list
    i, j,                \* its chunk offset and the offset in the chunk
    cache,               \* _cache
    calls,               \* the calls made to the translator, in order
    reads,               \* the years read_file was called for, in order
    shp,                 \* OUTPUT_DIR: year -> the shapefile written, if any
    dirs,                \* the directories created
    written,             \* the count main reports
    raised,              \* the exception that ended the run, if any
    arg, ret             \* one call of a helper: its arguments, its result

run_vars ==
    <<start, end, files, pc, year, needs_translation, unique, i, j, cache,
      calls, reads, shp, dirs, written, raised>>
vars == <<run_vars, arg, ret>>

\* ------------------------------------------------------------------ bounds

\* Longest text drawn for a raw name or a tag value.
MaxLen == 2

\* Number of years a run can range over, from DEFAULT_START on.
MaxYears == 2

\* Number of features in all the yearly datasets together.
MaxFeatures == 3

\* ---------------------------------------------------------------- constants

DEFAULT_START == 1900

\* The chunk size of prime_translation_cache, 50 in the source, scaled down
\* so that a run with a handful of labels has more than one chunk.
BATCH == 2

\* ------------------------------------------------------------------- text

\* Code points that Python's str.strip() removes.
Whitespace ==
    {9, 10, 11, 12, 13, 28, 29, 30, 31, 32, 133, 160, 5760, 8232, 8233,
     8239, 8287, 12288} \cup (8192..8202)

RECURSIVE TextsUpTo(_, _)
TextsUpTo(alphabet, n) ==
    IF n = 0 THEN {<<>>}
    ELSE LET shorter == TextsUpTo(alphabet, n - 1)
         IN  shorter \cup {Append(s, c) : s \in shorter, c \in alphabet}

RECURSIVE lstrip(_)
lstrip(s) ==
    IF s # <<>> /\ Head(s) \in Whitespace THEN lstrip(Tail(s)) ELSE s

RECURSIVE rstrip(_)
rstrip(s) ==
    IF s # <<>> /\ s[Len(s)] \in Whitespace
    THEN rstrip(SubSeq(s, 1, Len(s) - 1))
    ELSE s

\* str.strip()
strip(s) == rstrip(lstrip(s))

CJK_RE_main_block_only(c) == c >= 19968 /\ c <= 40959

\* _CJK_RE: [一-鿿㐀-䶿]
CJK_RE(c) == (c >= 19968 /\ c <= 40959) \/ (c >= 13312 /\ c <= 19903)

has_chinese_main_block(text) ==
    \E p \in 1..Len(text) : CJK_RE_main_block_only(text[p])

\* has_chinese(text): _CJK_RE.search(text or "")
has_chinese(text) == \E p \in 1..Len(text) : CJK_RE(text[p])

\* ---------------------------------------------------------- Python values

None == [some |-> FALSE, val |-> <<>>]
Some(s) == [some |-> TRUE, val |-> s]

\* x or "" for an Optional[str] x
OrEmpty(x) == IF x.some /\ x.val # <<>> THEN x.val ELSE <<>>

\* bool(x) for an Optional[str] x
Truthy(x) == x.some /\ x.val # <<>>

EmptyMap == [k \in {} |-> <<>>]

\* What a Python value is, as far as the code looks at it.
PyDict(m) == [t |-> "dict", js |-> "-", m |-> m]
PyStr(js, m) == [t |-> "str", js |-> js, m |-> m]
PyOther(t) == [t |-> t, js |-> "-", m |-> EmptyMap]

\* dict.get(key) on a mapping
get(m, key) == IF key \in DOMAIN m THEN Some(m[key]) ELSE None

\* ------------------------------------------------- helpers: tags and names

EN_KEY == "name:en"

\* The keys get_title_zh tries, in its order.
ZH_KEYS ==
    <<"name:zh", "name:zh-Hans", "name:zh-Hant",
      "name:zh-CN", "name:zh-TW", "name:zh-SG">>

\* json.loads(raw) of a str: raises on malformed text, otherwise the value
\* the text denotes, which is a dict or any other JSON value.
json_loads_raises(raw) == raw.js = "malformed"
json_loads(raw) ==
    IF raw.js = "dict" THEN PyDict(raw.m) ELSE PyOther(raw.js)

parse_tags(raw) ==
    IF raw.t = "dict" THEN raw
    ELSE IF raw.t = "str"
         THEN IF json_loads_raises(raw) THEN PyDict(EmptyMap)
              ELSE json_loads(raw)
         ELSE PyDict(EmptyMap)

\* tags.get raises AttributeError unless tags is a dict.
get_raises(tags) == tags.t # "dict"

get_title_en_name_first(tags, name) ==
    strip(IF name # <<>> THEN name ELSE OrEmpty(get(tags.m, EN_KEY)))

\* get_title_en(tags, name), tags a dict:
\* (tags.get("name:en") or name or "").strip()
get_title_en(tags, name) ==
    strip(IF Truthy(get(tags.m, EN_KEY)) THEN get(tags.m, EN_KEY).val
          ELSE IF name # <<>> THEN name ELSE <<>>)

RECURSIVE zh_loop(_, _, _)
zh_loop(keys, m, k) ==
    IF k > Len(keys) THEN None
    ELSE LET val == strip(OrEmpty(get(m, keys[k])))
         IN  IF val # <<>> THEN Some(val) ELSE zh_loop(keys, m, k + 1)

get_title_zh_name_first(tags, name) ==
    IF has_chinese(name) THEN Some(strip(name))
    ELSE zh_loop(ZH_KEYS, tags.m, 1)

\* get_title_zh(tags, name), tags a dict
get_title_zh(tags, name) ==
    LET r == zh_loop(ZH_KEYS, tags.m, 1)
    IN  IF r.some THEN r
        ELSE IF has_chinese(name) THEN Some(strip(name)) ELSE None

\* ------------------------------------------------------- translation cache

Range(s) == {s[k] : k \in 1..Len(s)}

\* dict.fromkeys(s): the first occurrence of each element, in order
RECURSIVE fromkeys(_, _)
fromkeys(s, acc) ==
    IF s = <<>> THEN acc
    ELSE fromkeys(Tail(s),
                  IF Head(s) \in Range(acc) THEN acc ELSE Append(acc, Head(s)))

unique_of_repeated(names, c) ==
    SelectSeq(names, LAMBDA n : n # <<>> /\ n \notin DOMAIN c)

unique_of_last(names, c) ==
    LET reversed(s) == [k \in 1..Len(s) |-> s[Len(s) + 1 - k]]
        kept == SelectSeq(names, LAMBDA n : n # <<>> /\ n \notin DOMAIN c)
    IN  reversed(fromkeys(reversed(kept), <<>>))

\* list(dict.fromkeys(n for n in names if n and n not in _cache))
unique_of(names, c) ==
    fromkeys(SelectSeq(names, LAMBDA n : n # <<>> /\ n \notin DOMAIN c), <<>>)

chunk_at_rest(u, off) == SubSeq(u, off + 1, Len(u))

chunk_at_overlap(u, off) ==
    SubSeq(u, 1, IF off + BATCH < Len(u) THEN off + BATCH ELSE Len(u))

\* unique[i : i + BATCH], i counted from 0
chunk_at(u, off) ==
    SubSeq(u, off + 1, IF off + BATCH < Len(u) THEN off + BATCH ELSE Len(u))

\* _cache[src] = tgt
store(c, src, tgt) ==
    [k \in DOMAIN c \cup {src} |-> IF k = src THEN tgt ELSE c[k]]

or_src_unless_none(tgt, src) == IF tgt.some THEN tgt.val ELSE src

\* tgt or src, for what the translator returned
or_src(tgt, src) == IF Truthy(tgt) THEN tgt.val ELSE src

RECURSIVE store_all_translated(_, _, _, _)
store_all_translated(c, chunk, results, k) ==
    IF k > Len(chunk) \/ k > Len(results) THEN c
    ELSE store_all_translated(
             IF Truthy(results[k]) THEN store(c, chunk[k], results[k].val)
             ELSE c,
             chunk, results, k + 1)

\* for src, tgt in zip(chunk, results): _cache[src] = tgt or src
RECURSIVE store_all(_, _, _, _)
store_all(c, chunk, results, k) ==
    IF k > Len(chunk) \/ k > Len(results) THEN c
    ELSE store_all(store(c, chunk[k], or_src(results[k], chunk[k])),
                   chunk, results, k + 1)

\* What the translator can return for one text: nothing, the empty text, or
\* a translation.
Translated(src) == <<35793>> \o src
TranslatorOutputs(src) == {None, Some(<<>>), Some(Translated(src))}

\* One call of the translator as the code sees it: the texts it was given,
\* whether it answered or raised, and its answer for each text, an empty and
\* a missing result alike the empty text (the code reads both with "or").
Raising(fn, texts) ==
    [fn |-> fn, texts |-> texts, ok |-> FALSE, answer |-> <<>>]
Answering(fn, texts, results) ==
    [fn |-> fn, texts |-> texts, ok |-> TRUE,
     answer |-> [k \in 1..Len(results) |-> OrEmpty(results[k])]]

\* _cache.get(en, en)
cache_get(c, en) == IF en \in DOMAIN c THEN c[en] ELSE en

\* ------------------------------------------------------------ process_year

title_of_cache_first(c, tags, name, title_en) ==
    LET zh == get_title_zh(tags, name)
    IN  IF title_en \in DOMAIN c THEN c[title_en]
        ELSE IF Truthy(zh) THEN zh.val ELSE title_en

\* The title process_year gives a row: the Chinese name of the tags when
\* there is one, otherwise the cached translation of its title_en.
title_of(c, tags, name, title_en) ==
    LET zh == get_title_zh(tags, name)
    IN  IF Truthy(zh) THEN zh.val ELSE cache_get(c, title_en)

oid_of_index(index) == index

\* gdf.index + 1 after reset_index(drop=True)
oid_of(index) == index + 1

\* The rows of the shapefile of a dataset, in the order read.
enriched(c, rows) ==
    [k \in 1..Len(rows) |->
        LET tags == parse_tags(rows[k].tags)
            en == get_title_en(tags, rows[k].name)
        IN  [oid |-> oid_of(k - 1),
             title |-> title_of(c, tags, rows[k].name, en),
             title_en |-> en]]

\* A row whose tags are no dict makes tags.get raise.
rows_raise(rows) ==
    \E k \in 1..Len(rows) : get_raises(parse_tags(rows[k].tags))

\* -------------------------------------------------------------------- main

needs_of_all(row) ==
    LET en == get_title_en(parse_tags(row.tags), row.name)
    IN  IF en # <<>> THEN <<en>> ELSE <<>>

needs_of_raw_name(row) ==
    LET tags == parse_tags(row.tags)
        en == strip(row.name)
    IN  IF ~Truthy(get_title_zh(tags, row.name)) /\ en # <<>>
        THEN <<en>> ELSE <<>>

needs_of_any(row) ==
    LET tags == parse_tags(row.tags)
    IN  IF ~Truthy(get_title_zh(tags, row.name))
        THEN <<get_title_en(tags, row.name)>> ELSE <<>>

\* What phase 1 appends for one row: its title_en when the tags give no
\* Chinese name and the title_en is not empty.
needs_of(row) ==
    LET tags == parse_tags(row.tags)
        en == get_title_en(tags, row.name)
    IN  IF ~Truthy(get_title_zh(tags, row.name)) /\ en # <<>>
        THEN <<en>> ELSE <<>>

\* What phase 1 appends for the rows it gets through: all of them, or those
\* before the first row that raises.
RECURSIVE scan(_, _)
scan(rows, k) ==
    IF k > Len(rows) \/ get_raises(parse_tags(rows[k].tags)) THEN <<>>
    ELSE needs_of(rows[k]) \o scan(rows, k + 1)

\* ---------------------------------------------------- the helpers, called

\* The texts drawn for raw names, for Chinese tags and for the English tag:
\* a space, a Latin letter, a kana (neither Latin nor CJK), an ideograph of
\* Extension A and one of the main block.
NameAlphabet == {32, 97, 12354, 13312, 20013}
ZhAlphabet == {32, 20013}
EnAlphabet == {32, 97}
Names == TextsUpTo(NameAlphabet, MaxLen)

TagKeys == {EN_KEY} \cup {ZH_KEYS[k] : k \in 1..Len(ZH_KEYS)}
TagValues(key) ==
    TextsUpTo(IF key = EN_KEY THEN EnAlphabet ELSE ZhAlphabet, MaxLen)

\* The tag mappings with one key and with a pair of keys, and the empty one.
OneKeyMaps ==
    {EmptyMap} \cup
    UNION {{[k \in {k1} |-> v] : v \in TagValues(k1)} : k1 \in TagKeys}
TagMaps ==
    OneKeyMaps \cup
    UNION {{[k \in {k1, k2} |-> IF k = k1 THEN v1 ELSE v2] :
                v1 \in TagValues(k1), v2 \in TagValues(k2)} :
           k1 \in TagKeys, k2 \in TagKeys}

\* The shapes in which a row's tags arrive: a dict, a str (malformed JSON,
\* or the JSON of a dict, a list, a number, a string, null), None, a float.
JsonNonDict == {"list", "int", "str", "NoneType"}
RawTags ==
    {PyDict(m) : m \in OneKeyMaps}
    \cup {PyStr("dict", m) : m \in OneKeyMaps}
    \cup {PyStr(js, EmptyMap) : js \in JsonNonDict \cup {"malformed"}}
    \cup {PyOther("NoneType"), PyOther("float")}

NoCall == [fn |-> "-", raised |-> FALSE, opt |-> None, py |-> PyOther("-")]
Idle == [raw |-> PyOther("-"), name |-> <<>>]

RunIdle ==
    /\ start = 0 /\ end = 0 /\ files = <<>> /\ pc = "-" /\ year = 0
    /\ needs_translation = <<>> /\ unique = <<>> /\ i = 0 /\ j = 0
    /\ cache = EmptyMap /\ calls = <<>> /\ reads = <<>> /\ shp = <<>>
    /\ dirs = {}
    /\ written = 0 /\ raised = "-"

Call_parse_tags ==
    /\ ret = NoCall
    /\ ret' = [NoCall EXCEPT !.fn = "parse_tags", !.py = parse_tags(arg.raw)]
    /\ UNCHANGED <<run_vars, arg>>

\* get_title_en(parse_tags(raw), name), as main and process_year call it
Call_get_title_en ==
    /\ ret = NoCall
    /\ LET tags == parse_tags(arg.raw)
       IN  ret' = IF get_raises(tags)
                  THEN [NoCall EXCEPT !.fn = "get_title_en", !.raised = TRUE]
                  ELSE [NoCall EXCEPT !.fn = "get_title_en",
                                      !.opt = Some(get_title_en(tags, arg.name))]
    /\ UNCHANGED <<run_vars, arg>>

\* get_title_zh(parse_tags(raw), name), as main and process_year call it
Call_get_title_zh ==
    /\ ret = NoCall
    /\ LET tags == parse_tags(arg.raw)
       IN  ret' = IF get_raises(tags)
                  THEN [NoCall EXCEPT !.fn = "get_title_zh", !.raised = TRUE]
                  ELSE [NoCall EXCEPT !.fn = "get_title_zh",
                                      !.opt = get_title_zh(tags, arg.name)]
    /\ UNCHANGED <<run_vars, arg>>

\* The name resolver on every dict of tags and every raw name.
InitNames ==
    /\ RunIdle
    /\ arg \in [raw : {PyDict(m) : m \in TagMaps}, name : Names]
    /\ ret = NoCall
NextNames == Call_get_title_en \/ Call_get_title_zh
SpecNames == InitNames /\ [][NextNames]_vars

\* The tag parser on every shape of tags, and the resolver on its result.
InitTags ==
    /\ RunIdle
    /\ arg \in [raw : RawTags, name : Names]
    /\ ret = NoCall
NextTags == Call_parse_tags \/ Call_get_title_en \/ Call_get_title_zh
SpecTags == InitTags /\ [][NextTags]_vars

\* ----------------------------------------------------------------- the run

Years == DEFAULT_START..(DEFAULT_START + MaxYears - 1)

Row(tags, name) == [tags |-> tags, name |-> name]

\* The features the yearly datasets are made of, in the order in which a
\* dataset lists those it has.
Features ==
    <<Row(PyOther("NoneType"), <<97>>),                      \* "a", no tags
      Row(PyStr("dict", EmptyMap), <<98>>),                   \* "b", tags "{}"
      Row(PyDict([k \in {EN_KEY} |-> <<99, 32>>]), <<97>>),  \* name:en "c "
      Row(PyDict([k \in {EN_KEY, "name:zh-Hant"} |->
                     IF k = EN_KEY THEN <<97>> ELSE <<32, 24503>>]),
          <<97>>),                                            \* zh-Hant " 德"
      Row(PyOther("NoneType"), <<13312, 32>>),                \* CJK raw name
      Row(PyStr("malformed", EmptyMap), <<>>),                \* no name at all
      Row(PyStr("list", EmptyMap), <<98>>)>>                  \* tags "[1]"

NotFound == [exists |-> FALSE, rows |-> <<>>]
Dataset(rows) == [exists |-> TRUE, rows |-> rows]

\* The dataset with the features at the places S of Features; a dataset
\* that exists holds at least one feature.
DatasetOf(S) ==
    IF S = {} THEN NotFound
    ELSE LET RECURSIVE pick(_)
             pick(k) == IF k > Len(Features) THEN <<>>
                        ELSE (IF k \in S THEN <<Features[k]>> ELSE <<>>)
                                 \o pick(k + 1)
         IN  Dataset(pick(1))

\* The ways to give each of n years some features, at most budget in all.
RECURSIVE Worlds(_, _)
Worlds(n, budget) ==
    IF n = 0 THEN {<<>>}
    ELSE UNION {{<<S>> \o w : w \in Worlds(n - 1, budget - Cardinality(S))} :
                S \in {S \in SUBSET (1..Len(Features)) :
                          Cardinality(S) <= budget}}

Unwritten == [written |-> FALSE, rows |-> <<>>]

\* OUTPUT_DIR, and process_year's dst_dir: OUTPUT_DIR / str(year)
OUTPUT_DIR == [path |-> "output/shp", year |-> 0]
dst_dir(y) == [path |-> "output/shp/<year>", year |-> y]

\* A run never looks at a year outside a valid range: those years have no
\* dataset here.  Under an invalid range every year may have one.
Init ==
    /\ start \in Years /\ end \in Years
    /\ \E w \in Worlds(MaxYears, MaxFeatures) :
          /\ start <= end =>
                \A y \in Years \ (start..end) : w[y - DEFAULT_START + 1] = {}
          /\ files = [y \in Years |-> DatasetOf(w[y - DEFAULT_START + 1])]
    /\ pc = "main" /\ year = 0
    /\ needs_translation = <<>> /\ unique = <<>> /\ i = 0 /\ j = 0
    /\ cache = EmptyMap /\ calls = <<>> /\ reads = <<>>
    /\ shp = [y \in Years |-> Unwritten] /\ dirs = {}
    /\ written = 0 /\ raised = "-"
    /\ arg = Idle /\ ret = NoCall

\* An exception nothing catches ends the run.
Abort(exc) == pc' = "aborted" /\ raised' = exc

invalid_range_never(s, e) == FALSE

\* args.start > args.end
invalid_range(s, e) == s > e

\* main, lines 206-212: the range is checked before anything else.
CheckRange ==
    /\ pc = "main"
    /\ IF invalid_range(start, end)
       THEN Abort("SystemExit(1)") /\ UNCHANGED year
       ELSE pc' = "phase1" /\ year' = start /\ UNCHANGED raised
    /\ UNCHANGED <<start, end, files, needs_translation, unique, i, j, cache,
                   calls, reads, shp, dirs, written, arg, ret>>

\* main, lines 221-231: one year of the scan.
ScanYear ==
    /\ pc = "phase1"
    /\ IF ~files[year].exists
       THEN /\ pc' = IF year = end THEN "phase2" ELSE "phase1"
            /\ year' = year + 1
            /\ UNCHANGED <<needs_translation, reads, raised>>
       ELSE /\ reads' = Append(reads, year)
            /\ \E read_ok \in BOOLEAN :
                  IF ~read_ok
                  THEN Abort("read_file")
                          /\ UNCHANGED <<year, needs_translation>>
                  ELSE /\ needs_translation' =
                              needs_translation \o scan(files[year].rows, 1)
                       /\ IF rows_raise(files[year].rows)
                          THEN Abort("AttributeError") /\ UNCHANGED year
                          ELSE /\ pc' = IF year = end THEN "phase2"
                                                     ELSE "phase1"
                               /\ year' = year + 1
                               /\ UNCHANGED raised
    /\ UNCHANGED <<start, end, files, unique, i, j, cache, calls, shp, dirs,
                   written, arg, ret>>

\* prime_translation_cache, lines 109-117: nothing to translate, or the list.
Prime ==
    /\ pc = "phase2"
    /\ unique' = unique_of(needs_translation, cache)
    /\ pc' = IF unique' = <<>> THEN "phase3" ELSE "batch"
    /\ i' = 0
    /\ UNCHANGED <<start, end, files, year, needs_translation, j, cache,
                   calls, reads, shp, dirs, written, raised, arg, ret>>

next_chunk_pc_again(off) ==
    IF off + BATCH < Len(unique) THEN "batch" ELSE "phase2"

\* The loop of line 122 goes on with the next chunk, or ends.
next_chunk_pc(off) == IF off + BATCH < Len(unique) THEN "batch" ELSE "phase3"

\* Lines 123-130: one chunk goes to translate_batch, which answers or raises.
TranslateBatch ==
    /\ pc = "batch"
    /\ LET chunk == chunk_at(unique, i)
       IN  /\ \/ /\ calls' = Append(calls, Raising("translate_batch", chunk))
                 /\ pc' = "retry" /\ j' = 0
                 /\ UNCHANGED <<cache, i>>
              \/ \E results \in [1..Len(chunk) ->
                                    UNION {TranslatorOutputs(chunk[k]) :
                                           k \in 1..Len(chunk)}] :
                    /\ \A k \in 1..Len(chunk) :
                          results[k] \in TranslatorOutputs(chunk[k])
                    /\ calls' = Append(calls, Answering("translate_batch",
                                                          chunk, results))
                    /\ cache' = store_all(cache, chunk, results, 1)
                    /\ pc' = next_chunk_pc(i)
                    /\ i' = i + BATCH
                    /\ UNCHANGED j
    /\ UNCHANGED <<start, end, files, year, needs_translation, unique, reads,
                   shp, dirs, written, raised, arg, ret>>

\* Lines 131-137: one text of the failed chunk goes to translate, which
\* answers or raises.
TranslateOne ==
    /\ pc = "retry"
    /\ LET chunk == chunk_at(unique, i)
           src == chunk[j + 1]
       IN  /\ \/ /\ calls' = Append(calls, Raising("translate", <<src>>))
                 /\ cache' = store(cache, src, src)
              \/ \E tgt \in TranslatorOutputs(src) :
                    /\ calls' = Append(calls, Answering("translate", <<src>>,
                                                        <<tgt>>))
                    /\ cache' = store(cache, src, or_src(tgt, src))
           /\ IF j + 1 < Len(chunk)
              THEN j' = j + 1 /\ UNCHANGED <<pc, i>>
              ELSE j' = 0 /\ pc' = next_chunk_pc(i) /\ i' = i + BATCH
    /\ UNCHANGED <<start, end, files, year, needs_translation, unique, reads,
                   shp, dirs, written, raised, arg, ret>>

\* main, line 243: the output directory, before the first process_year.
MakeOutputDir ==
    /\ pc = "phase3"
    /\ dirs' = dirs \cup {OUTPUT_DIR}
    /\ pc' = "write" /\ year' = start
    /\ UNCHANGED <<start, end, files, needs_translation, unique, i, j, cache,
                   calls, reads, shp, written, raised, arg, ret>>

add_result_always(count, result) == count + 1

\* sum(process_year(y) for y in years), one term at a time
add_result(count, result) == count + (IF result THEN 1 ELSE 0)

\* process_year(year), and main's sum and last print after the last year.
ProcessYear ==
    /\ pc = "write"
    /\ IF ~files[year].exists
       THEN /\ pc' = IF year = end THEN "done" ELSE "write"
            /\ year' = year + 1
            /\ written' = add_result(written, FALSE)
            /\ UNCHANGED <<reads, shp, dirs, raised>>
       ELSE /\ dirs' = dirs \cup {dst_dir(year)}
            /\ reads' = Append(reads, year)
            /\ \E read_ok \in BOOLEAN, write_ok \in BOOLEAN :
               IF ~read_ok
               THEN Abort("read_file") /\ UNCHANGED <<year, shp, written>>
               ELSE IF rows_raise(files[year].rows)
               THEN Abort("AttributeError") /\ UNCHANGED <<year, shp, written>>
               ELSE IF ~write_ok
               THEN Abort("to_file") /\ UNCHANGED <<year, shp, written>>
               ELSE /\ shp' = [shp EXCEPT ![year] =
                                  [written |-> TRUE,
                                   rows |-> enriched(cache, files[year].rows)]]
                    /\ written' = add_result(written, TRUE)
                    /\ pc' = IF year = end THEN "done" ELSE "write"
                    /\ year' = year + 1
                    /\ UNCHANGED raised
    /\ UNCHANGED <<start, end, files, needs_translation, unique, i, j, cache,
                   calls, arg, ret>>

Next ==
    \/ CheckRange
    \/ ScanYear
    \/ Prime
    \/ TranslateBatch
    \/ TranslateOne
    \/ MakeOutputDir
    \/ ProcessYear

Spec == Init /\ [][Next]_vars

\* =================================================================== claims

\* What the claims speak of, said without the code's helpers.

Blank(s) == \A p \in 1..Len(s) : s[p] \in Whitespace

\* s without its leading and trailing whitespace
Trimmed(s) ==
    LET P == {p \in 1..Len(s) : s[p] \notin Whitespace}
    IN  IF P = {} THEN <<>>
        ELSE SubSeq(s, CHOOSE p \in P : \A q \in P : p <= q,
                       CHOOSE p \in P : \A q \in P : q <= p)

\* s holds a CJK Unified Ideograph, Extension A included
HasIdeograph(s) ==
    \E p \in 1..Len(s) : s[p] \in 19968..40959 \/ s[p] \in 13312..19903

ChineseKeyOrder ==
    <<"name:zh", "name:zh-Hans", "name:zh-Hant",
      "name:zh-CN", "name:zh-TW", "name:zh-SG">>

\* The places in ChineseKeyOrder of the keys of m with a non-blank value
NonBlankChinese(m) ==
    {k \in 1..Len(ChineseKeyOrder) :
        /\ ChineseKeyOrder[k] \in DOMAIN m
        /\ ~Blank(m[ChineseKeyOrder[k]])}

\* How often the text L was handed to the translator by calls of fn
Sent(fn, L) ==
    LET at == {<<c, p>> \in (1..Len(calls)) \X (1..BATCH) :
                  /\ calls[c].fn = fn
                  /\ p <= Len(calls[c].texts)
                  /\ calls[c].texts[p] = L}
    IN  Cardinality(at)

\* The texts handed to the translator so far
SentTexts == UNION {Range(calls[c].texts) : c \in 1..Len(calls)}

\* The years of the requested range whose dataset exists
Present == {y \in start..end : files[y].exists}

\* prime_translation_cache has returned
Primed == pc \in {"phase3", "write", "done"} \/ OUTPUT_DIR \in dirs

\* ------------------------------------------------------------------- C1

\* C1, as stated: over a whole run every label is handed to the translator
\* at most once, batched and individual calls counted together.
C1_SentAtMostOnce ==
    \A L \in SentTexts : Sent("translate_batch", L) + Sent("translate", L) <= 1

\* C1, amended: over a whole run every label is handed to the translator at
\* most once in a batched call and at most once in an individual call, and
\* individually only after the batched call that held it; however many
\* features and years share the label.
C1_SentOncePerKind ==
    \A L \in SentTexts :
        /\ Sent("translate_batch", L) = 1
        /\ Sent("translate", L) <= 1
        /\ \A c \in 1..Len(calls) :
              (calls[c].fn = "translate" /\ calls[c].texts = <<L>>) =>
                 \E b \in 1..(c - 1) :
                    /\ calls[b].fn = "translate_batch"
                    /\ L \in Range(calls[b].texts)

\* A finished run in which two years hold a feature with the same label,
\* which went to the translator in a batch and then alone.
C1_Witness ==
    /\ pc = "done"
    /\ \A y \in Years : shp[y].written
    /\ \E L \in SentTexts :
          /\ \E p, q \in 1..Len(needs_translation) :
                p # q /\ needs_translation[p] = L /\ needs_translation[q] = L
          /\ \A y \in Years : \E k \in 1..Len(shp[y].rows) :
                shp[y].rows[k].title_en = L
          /\ Sent("translate_batch", L) = 1
          /\ Sent("translate", L) = 1

\* ------------------------------------------------------------------- C2

\* C2: once prime_translation_cache has returned, every non-empty label it
\* was given is a key of the cache, whatever the translator did.
C2_AllLabelsCached ==
    Primed =>
        \A p \in 1..Len(needs_translation) :
            needs_translation[p] # <<>> =>
                needs_translation[p] \in DOMAIN cache

\* prime_translation_cache has returned after a batch that answered with an
\* empty result for one label and a translation for the other, and a batch
\* that failed, followed by an individual call that failed or came back
\* empty.
C2_Witness ==
    /\ pc = "phase3"
    /\ \E b \in 1..Len(calls) :
          /\ calls[b].fn = "translate_batch"
          /\ Len(calls[b].texts) = 2
          /\ cache[calls[b].texts[1]] = calls[b].texts[1]
          /\ cache[calls[b].texts[2]] # calls[b].texts[2]
          /\ b < Len(calls) /\ calls[b + 1].fn = "translate_batch"
    /\ \E c \in 1..Len(calls) :
          /\ calls[c].fn = "translate"
          /\ cache[calls[c].texts[1]] = calls[c].texts[1]

\* ------------------------------------------------------------------- C3

\* The title the claim gives row k of the dataset of year y, whose written
\* English label is en.
C3_Title(y, k, en) ==
    LET row == files[y].rows[k]
        zh == get_title_zh(parse_tags(row.tags), row.name)
    IN  IF zh.some THEN zh.val
        ELSE IF en \in DOMAIN cache THEN cache[en]
        ELSE en

C3_Titles ==
    \A y \in Years :
        shp[y].written =>
            \A k \in 1..Len(shp[y].rows) :
                shp[y].rows[k].title =
                    C3_Title(y, k, shp[y].rows[k].title_en)

\* C3: every title process_year writes is the Chinese name the tags give
\* when there is one, whatever the cache holds, otherwise the cache value of
\* the row's English label when the label is a key, otherwise the label;
\* resolving raises nothing, and no step of phase 3 calls the translator.
C3_Resolution ==
    /\ [](C3_Titles /\ ~(OUTPUT_DIR \in dirs /\ raised = "AttributeError"))
    /\ [][pc = "write" => calls' = calls]_vars

\* A year is written with a row titled from its tags although its English
\* label is a cache key with another value, a row titled from the cache,
\* and a row whose label is no cache key.
C3_Witness ==
    \E y \in Years :
        /\ shp[y].written
        /\ \E k \in 1..Len(shp[y].rows) :
              LET r == shp[y].rows[k]
              IN  /\ get_title_zh(parse_tags(files[y].rows[k].tags),
                                  files[y].rows[k].name).some
                  /\ r.title_en \in DOMAIN cache
                  /\ cache[r.title_en] # r.title
                  /\ cache[r.title_en] # r.title_en
        /\ \E k \in 1..Len(shp[y].rows) :
              LET r == shp[y].rows[k]
              IN  /\ ~get_title_zh(parse_tags(files[y].rows[k].tags),
                                   files[y].rows[k].name).some
                  /\ r.title_en \in DOMAIN cache
                  /\ r.title = cache[r.title_en]
                  /\ r.title # r.title_en
        /\ \E k \in 1..Len(shp[y].rows) :
              LET r == shp[y].rows[k]
              IN  r.title_en \notin DOMAIN cache /\ r.title = r.title_en

\* ------------------------------------------------------------------- C4

\* C4: get_title_zh returns the trimmed value of the first key, in the order
\* name:zh, name:zh-Hans, name:zh-Hant, name:zh-CN, name:zh-TW, name:zh-SG,
\* whose value is not blank, skipping the keys that are absent, empty or
\* blank; a raw name with an ideograph never takes the place of such a value.
C4_FirstNonBlankTag ==
    ret.fn = "get_title_zh" =>
        LET m == arg.raw.m
            K == NonBlankChinese(m)
        IN  K # {} =>
                LET first == CHOOSE k \in K : \A q \in K : k <= q
                IN  ret = [NoCall EXCEPT
                              !.fn = "get_title_zh",
                              !.opt = Some(Trimmed(m[ChineseKeyOrder[first]]))]

\* get_title_zh has answered name:zh's trimmed value for tags that also
\* have another value under name:zh-Hant, and a raw name with an ideograph.
C4_Witness ==
    /\ ret.fn = "get_title_zh"
    /\ DOMAIN arg.raw.m = {"name:zh", "name:zh-Hant"}
    /\ arg.raw.m["name:zh"] = <<32, 20013>>
    /\ arg.raw.m["name:zh-Hant"] = <<20013, 20013>>
    /\ HasIdeograph(arg.name)
    /\ ret.opt = Some(<<20013>>)

\* ------------------------------------------------------------------- C6

\* The English label of the claim: the name:en value when the tags have a
\* non-empty one, otherwise the raw name, otherwise nothing; trimmed.
EnglishLabel(m, name) ==
    IF EN_KEY \in DOMAIN m /\ m[EN_KEY] # <<>> THEN Trimmed(m[EN_KEY])
    ELSE IF name # <<>> THEN Trimmed(name)
    ELSE <<>>

\* C6: get_title_en returns the name:en value when there is one, otherwise
\* the raw name, otherwise the empty text, and what it returns never starts
\* or ends with whitespace.
C6_EnglishLabel ==
    ret.fn = "get_title_en" =>
        /\ ~ret.raised
        /\ ret.opt = Some(EnglishLabel(arg.raw.m, arg.name))
        /\ LET s == ret.opt.val
           IN  s # <<>> => s[1] \notin Whitespace /\ s[Len(s)] \notin Whitespace

\* get_title_en has answered the trimmed name:en value of a feature that
\* also has a raw name.
C6_Witness ==
    /\ ret.fn = "get_title_en"
    /\ DOMAIN arg.raw.m = {EN_KEY}
    /\ arg.raw.m[EN_KEY] = <<32, 97>>
    /\ arg.name = <<20013, 32>>
    /\ ret.opt = Some(<<97>>)

\* ------------------------------------------------------------------- C5

\* The rows of the years from y to the end of the range, in the order read.
RECURSIVE RowsFrom(_)
RowsFrom(y) ==
    IF y > end THEN <<>>
    ELSE (IF files[y].exists THEN files[y].rows ELSE <<>>) \o RowsFrom(y + 1)

NoChineseTag(row) == NonBlankChinese(parse_tags(row.tags).m) = {}
LabelOf(row) == EnglishLabel(parse_tags(row.tags).m, row.name)

\* The rows of the range that have a label and neither a Chinese tag nor an
\* ideograph in their raw name, by their labels.
C5_Untranslated ==
    LET rows == SelectSeq(RowsFrom(start),
                          LAMBDA row : /\ NoChineseTag(row)
                                       /\ ~HasIdeograph(row.name)
                                       /\ LabelOf(row) # <<>>)
    IN  [k \in 1..Len(rows) |-> LabelOf(rows[k])]

\* Phase 1 has scanned every year of the range.
Scanned == pc \in {"phase2", "batch", "retry"} \/ Primed

\* C5: a feature with no non-blank Chinese tag and a raw name holding a CJK
\* ideograph (Extension A included) is written with its trimmed raw name as
\* title; the labels to translate are those of the features with neither a
\* Chinese tag nor an ideograph in the raw name, which have no tag-derived
\* title, and nothing else goes to the translator.
C5_IdeographName ==
    /\ \A y \in Years :
          shp[y].written =>
              \A k \in 1..Len(shp[y].rows) :
                  LET row == files[y].rows[k]
                  IN  NoChineseTag(row) =>
                          IF HasIdeograph(row.name)
                          THEN shp[y].rows[k].title = Trimmed(row.name)
                          ELSE shp[y].rows[k].title =
                                   IF LabelOf(row) \in DOMAIN cache
                                   THEN cache[LabelOf(row)] ELSE LabelOf(row)
    /\ Scanned => needs_translation = C5_Untranslated
    /\ SentTexts \subseteq Range(needs_translation)

\* A finished run wrote a feature with no tags and a raw name made of an
\* Extension A ideograph and a space, titled with the ideograph alone; the
\* translator was called, but never with that name.
C5_Witness ==
    /\ pc = "done"
    /\ calls # <<>>
    /\ <<13312>> \notin SentTexts
    /\ \E y \in Years :
          /\ shp[y].written
          /\ \E k \in 1..Len(shp[y].rows) :
                /\ files[y].rows[k] = Row(PyOther("NoneType"), <<13312, 32>>)
                /\ shp[y].rows[k].title = <<13312>>

\* ------------------------------------------------------------------- C7

\* C7: in every dataset written the oids are 1..N in the order of the rows
\* of the source dataset, N its number of rows, starting again at 1 for
\* every year.
C7_Oids ==
    \A y \in Years :
        shp[y].written =>
            /\ Len(shp[y].rows) = Len(files[y].rows)
            /\ \A k \in 1..Len(shp[y].rows) :
                  /\ shp[y].rows[k].oid = k
                  /\ shp[y].rows[k].title_en = LabelOf(files[y].rows[k])

\* Two years are written, one of them with two different rows numbered 1
\* and 2, the other with a row numbered 1.
C7_Witness ==
    \E y1, y2 \in Years :
        /\ y1 # y2
        /\ shp[y1].written /\ shp[y2].written
        /\ Len(shp[y1].rows) = 2 /\ Len(shp[y2].rows) = 1
        /\ shp[y1].rows[1].title_en # shp[y1].rows[2].title_en
        /\ shp[y1].rows[1].oid = 1 /\ shp[y1].rows[2].oid = 2
        /\ shp[y2].rows[1].oid = 1

\* ------------------------------------------------------------------- C8

\* C8: parse_tags always returns a mapping: its input when that is one,
\* the empty mapping for a text that does not decode and for every other
\* shape; so get_title_en and get_title_zh can always query its result,
\* also for a text that decodes to something that is no mapping.
C8_AlwaysAMapping ==
    /\ ret.fn = "parse_tags" =>
          /\ ret.py.t = "dict"
          /\ arg.raw.t = "dict" => ret.py = arg.raw
          /\ (arg.raw.t = "str" /\ arg.raw.js = "malformed") =>
                ret.py = PyDict(EmptyMap)
          /\ arg.raw.t \notin {"dict", "str"} => ret.py = PyDict(EmptyMap)
    /\ ret.fn \in {"get_title_en", "get_title_zh"} => ~ret.raised

\* ------------------------------------------------------------------- C9

\* C9: when the run is over and the year it was at failed, every other year
\* of the range whose dataset exists has been written.
C9_OtherYearsWritten ==
    (start <= end /\ pc \in {"done", "aborted"}) =>
        \A y \in Present : y # year => shp[y].written

\* ------------------------------------------------------------------ C10

C10_Counted ==
    /\ pc = "done" => written = Cardinality(Present)
    /\ start <= end =>
          \A y \in (start..end) \ Present :
              ~shp[y].written /\ dst_dir(y) \notin dirs

\* C10: under a valid range a year without a dataset is passed over without
\* an error and without any output for it, and the count of a run that
\* gets to its end is the number of years of the range that have a dataset.
C10_MissingYears ==
    /\ []C10_Counted
    /\ [][(pc \in {"phase1", "write"} /\ ~files[year].exists) =>
             (pc' # "aborted" /\ raised' = raised /\ shp' = shp
                 /\ dirs' = dirs /\ written' = written)]_vars

\* A run over two years, the first without a dataset, has ended with the
\* second year written and a count of one.
C10_Witness ==
    /\ pc = "done"
    /\ start < end
    /\ ~files[start].exists /\ files[end].exists
    /\ ~shp[start].written /\ shp[end].written
    /\ written = 1

\* ------------------------------------------------------------------ C11

C11_NoWork ==
    start > end =>
        /\ pc \in {"main", "aborted"}
        /\ pc = "aborted" => raised = "SystemExit(1)"
        /\ reads = <<>> /\ needs_translation = <<>>
        /\ calls = <<>> /\ cache = EmptyMap
        /\ dirs = {} /\ \A y \in Years : ~shp[y].written

\* C11: with start after end the only step main takes is the exit with
\* status 1, and at no time has a dataset been read, the translator been
\* called, the cache been given a key, or a directory or a dataset been
\* written.
C11_InvalidRange ==
    /\ []C11_NoWork
    /\ [][(start > end /\ pc = "main") =>
             (pc' = "aborted" /\ raised' = "SystemExit(1)")]_vars

\* main has exited with status 1 on a range with start after end, although
\* every year has a dataset.
C11_Witness ==
    /\ start > end
    /\ pc = "aborted" /\ raised = "SystemExit(1)"
    /\ \A y \in Years : files[y].exists

\* ------------------------------------------------------------------ C12

\* Tag data that cannot be parsed: a text that is no JSON.
Unparsable(raw) == raw.t = "str" /\ raw.js = "malformed"

\* C12: no label of the list to translate, no text handed to the translator
\* and no cache key is empty or blank; a feature with unparsable tags and an
\* empty raw name is written with an empty title_en and an empty title.
C12_NoBlankLabel ==
    /\ \A p \in 1..Len(needs_translation) : ~Blank(needs_translation[p])
    /\ \A L \in SentTexts : ~Blank(L)
    /\ \A L \in DOMAIN cache : ~Blank(L)
    /\ \A y \in Years :
          shp[y].written =>
              \A k \in 1..Len(shp[y].rows) :
                  (Unparsable(files[y].rows[k].tags)
                      /\ files[y].rows[k].name = <<>>) =>
                     /\ shp[y].rows[k].title_en = <<>>
                     /\ shp[y].rows[k].title = <<>>

\* A finished run that called the translator wrote a feature with unparsable
\* tags and an empty raw name, with both labels empty.
C12_Witness ==
    /\ pc = "done"
    /\ calls # <<>>
    /\ \E y \in Years :
          /\ shp[y].written
          /\ \E k \in 1..Len(shp[y].rows) :
                /\ Unparsable(files[y].rows[k].tags)
                /\ files[y].rows[k].name = <<>>
                /\ shp[y].rows[k].title_en = <<>>
                /\ shp[y].rows[k].title = <<>>

\* ------------------------------------------------------------------ C13

\* The place of a point of main in the order of its phases.
PhaseOrder(p) ==
    CASE p = "main" -> 0
      [] p = "phase1" -> 1
      [] p = "phase2" -> 2
      [] p \in {"batch", "retry"} -> 3
      [] p = "phase3" -> 4
      [] p = "write" -> 5
      [] OTHER -> 6

\* C13: the cache changes only while prime_translation_cache runs, which is
\* before the output directory is made and before process_year reads any
\* dataset or the cache; from the first process_year on it stays as it is;
\* prime_translation_cache is entered once, from the end of the scan, never
\* again, and nothing after it is reached without it.
C13_Barrier ==
    /\ [][cache' # cache =>
             (/\ pc \in {"batch", "retry"}
              /\ OUTPUT_DIR \notin dirs
              /\ \A y \in Years :
                    ~shp[y].written /\ dst_dir(y) \notin dirs)]_vars
    /\ [][(pc \in {"phase3", "write", "done"}) => (cache' = cache)]_vars
    /\ [][PhaseOrder(pc) <= PhaseOrder(pc')]_vars
    /\ [][pc = "phase2" => (pc' \in {"batch", "phase3"})]_vars
    /\ [][pc' = "phase2" => (pc = "phase1")]_vars
    /\ [][(pc' \in {"batch", "retry", "phase3", "write", "done"}
              /\ PhaseOrder(pc) < 3) => (pc = "phase2")]_vars

\* A finished run wrote two years, both with a title read from a cache that
\* holds a translation.
C13_Witness ==
    /\ pc = "done"
    /\ \A y \in Years :
          /\ shp[y].written
          /\ \E k \in 1..Len(shp[y].rows) :
                LET r == shp[y].rows[k]
                IN  /\ r.title_en \in DOMAIN cache
                    /\ r.title = cache[r.title_en]
                    /\ r.title # r.title_en

\* ------------------------------------------------------------------ C14

\* s without the repetitions of its elements, each at its first place
RECURSIVE FirstOccurrences(_)
FirstOccurrences(s) ==
    IF s = <<>> THEN <<>>
    ELSE LET front == SubSeq(s, 1, Len(s) - 1)
             last == s[Len(s)]
         IN  IF \E p \in 1..Len(front) : front[p] = last
             THEN FirstOccurrences(front)
             ELSE Append(FirstOccurrences(front), last)

\* The texts of the first n calls that were batched calls, one after another
RECURSIVE BatchedTexts(_)
BatchedTexts(n) ==
    IF n = 0 THEN <<>>
    ELSE BatchedTexts(n - 1) \o
            (IF calls[n].fn = "translate_batch" THEN calls[n].texts ELSE <<>>)

IsPrefix(s, t) == Len(s) <= Len(t) /\ s = SubSeq(t, 1, Len(s))

C14_Pooled ==
    /\ calls # <<>> =>
          /\ pc \notin {"main", "phase1", "phase2"}
          /\ \A y \in Present : \E p \in 1..Len(reads) : reads[p] = y
          /\ IsPrefix(BatchedTexts(Len(calls)),
                      FirstOccurrences(C5_Untranslated))
          /\ SentTexts \subseteq Range(BatchedTexts(Len(calls)))
    /\ Primed =>
          BatchedTexts(Len(calls)) = FirstOccurrences(C5_Untranslated)

\* C14: the translator is first called only when every year of the range
\* that has a dataset has been read and scanned; what goes to it in batched
\* calls, taken in order, is the list of the labels needing translation of
\* all those years together, without repetitions and in the order of first
\* occurrence, and individual calls send nothing else.
C14_DiscoveryFirst ==
    /\ []C14_Pooled
    /\ [][calls' # calls =>
             (/\ pc \in {"batch", "retry"}
              /\ \A y \in Present : \E p \in 1..Len(reads) : reads[p] = y)]_vars

\* A finished run over two years with datasets, whose labels to translate
\* were a first, a second and the first again, sent the first and the second
\* in batched calls, in that order.
C14_Witness ==
    /\ pc = "done"
    /\ Cardinality(Present) = 2
    /\ Len(needs_translation) = 3
    /\ needs_translation[1] = needs_translation[3]
    /\ needs_translation[1] # needs_translation[2]
    /\ BatchedTexts(Len(calls)) = <<needs_translation[1], needs_translation[2]>>

\* ------------------------------------------------------------------ C15

\* The call a step has just made
NewCall == calls'[Len(calls')]

\* C15: a key of the cache stays a key with the value it has; the cache
\* changes only in a step that calls the translator, and only at labels of
\* that call; a label that is a key is in no later call and so is written by
\* no later step, and no call holds a label twice: every key is written
\* once, however often its label occurs in the datasets.
C15_WriteOnce ==
    /\ [][\A L \in DOMAIN cache :
             L \in DOMAIN cache' /\ cache'[L] = cache[L]]_vars
    /\ [][cache' # cache => calls' # calls]_vars
    /\ [][calls' # calls =>
             (/\ Range(NewCall.texts) \cap DOMAIN cache = {}
              /\ (DOMAIN cache' \ DOMAIN cache) \subseteq Range(NewCall.texts)
              /\ Cardinality(Range(NewCall.texts)) = Len(NewCall.texts))]_vars

\* A finished run wrote two years that both hold a feature with the same
\* label, which was discovered twice and is one key of the cache, with a
\* translation as its value.
C15_Witness ==
    /\ pc = "done"
    /\ \A y \in Years : shp[y].written
    /\ \E L \in DOMAIN cache :
          /\ cache[L] # L
          /\ Cardinality({p \in 1..Len(needs_translation) :
                             needs_translation[p] = L}) = 2
          /\ \A y \in Years : \E k \in 1..Len(shp[y].rows) :
                shp[y].rows[k].title_en = L /\ shp[y].rows[k].title = cache[L]

\* ------------------------------------------------------------------ C16

\* The row has no Chinese name from its tags or its raw name.
NoCandidate(row) == NoChineseTag(row) /\ ~HasIdeograph(row.name)

\* C16: the datasets being at resolution what they were at discovery, every
\* feature process_year has written, or is about to process, that has no
\* Chinese candidate and a non-empty English label has that label as a key
\* of the cache, and is written with the value of that key.
C16_CacheComplete ==
    /\ \A y \in Years :
          shp[y].written =>
              \A k \in 1..Len(shp[y].rows) :
                  (NoCandidate(files[y].rows[k])
                      /\ shp[y].rows[k].title_en # <<>>) =>
                     /\ shp[y].rows[k].title_en \in DOMAIN cache
                     /\ shp[y].rows[k].title = cache[shp[y].rows[k].title_en]
    /\ (pc = "write" /\ files[year].exists) =>
          \A k \in 1..Len(files[year].rows) :
              (NoCandidate(files[year].rows[k])
                  /\ LabelOf(files[year].rows[k]) # <<>>) =>
                 LabelOf(files[year].rows[k]) \in DOMAIN cache

\* A year is written with a feature without a Chinese candidate, titled with
\* the translation the cache holds for its label, next to a feature with a
\* candidate whose label is no key of the cache.
C16_Witness ==
    \E y \in Years :
        /\ shp[y].written
        /\ \E k \in 1..Len(shp[y].rows) :
              /\ NoCandidate(files[y].rows[k])
              /\ shp[y].rows[k].title_en \in DOMAIN cache
              /\ shp[y].rows[k].title # shp[y].rows[k].title_en
        /\ \E k \in 1..Len(shp[y].rows) :
              /\ ~NoCandidate(files[y].rows[k])
              /\ shp[y].rows[k].title_en # <<>>
              /\ shp[y].rows[k].title_en \notin DOMAIN cache

\* ------------------------------------------------------------------ C17

\* No feature of the range has a label to translate: each has a Chinese
\* candidate or an empty English label, or there is no dataset at all.
NothingToTranslate == start <= end /\ C5_Untranslated = <<>>

\* C17: when no feature of the range has a label to translate, the
\* translator is never called and the cache stays empty, and the run goes
\* from the priming straight on to making the output directory and to
\* process_year.
C17_NoCall ==
    /\ [](NothingToTranslate =>
             /\ calls = <<>> /\ cache = EmptyMap
             /\ pc \notin {"batch", "retry"})
    /\ [][(NothingToTranslate /\ pc = "phase2") => (pc' = "phase3")]_vars
    /\ [][(NothingToTranslate /\ pc = "phase3") =>
             (pc' = "write" /\ year' = start)]_vars

\* A run without any call of the translator and with an empty cache has
\* ended after writing a year with a feature that has a Chinese candidate
\* and a feature with an empty English label.
C17_Witness ==
    /\ pc = "done"
    /\ needs_translation = <<>> /\ calls = <<>> /\ cache = EmptyMap
    /\ \E y \in Years :
          /\ shp[y].written
          /\ \E k \in 1..Len(shp[y].rows) :
                /\ shp[y].rows[k].title_en # <<>>
                /\ shp[y].rows[k].title # shp[y].rows[k].title_en
          /\ \E k \in 1..Len(shp[y].rows) : shp[y].rows[k].title_en = <<>>

\* ------------------------------------------------------------------ C18

\* The labels to translate, each once, and the n-th run of at most BATCH of
\* them (BATCH stands for the 50 of the source).
Labels == FirstOccurrences(C5_Untranslated)
Chunk(n) ==
    SubSeq(Labels, (n - 1) * BATCH + 1,
           IF n * BATCH < Len(Labels) THEN n * BATCH ELSE Len(Labels))

\* How many of the first c calls were batched calls
BatchedUpTo(c) ==
    Cardinality({b \in 1..c : calls[b].fn = "translate_batch"})

\* The last batched call before call c, 0 if there is none
LastBatchBefore(c) ==
    LET B == {b \in 1..(c - 1) : calls[b].fn = "translate_batch"}
    IN  IF B = {} THEN 0 ELSE CHOOSE b \in B : \A q \in B : q <= b

C18_Calls ==
    \A c \in 1..Len(calls) :
        IF calls[c].fn = "translate_batch"
        THEN /\ calls[c].texts = Chunk(BatchedUpTo(c))
             /\ calls[c].texts # <<>>
             /\ Len(calls[c].texts) <= BATCH
             /\ (c > 1 /\ calls[c - 1].fn = "translate_batch") => calls[c - 1].ok
             /\ (Primed /\ ~calls[c].ok) =>
                   \A p \in 1..Len(calls[c].texts) :
                       /\ c + p <= Len(calls)
                       /\ calls[c + p].fn = "translate"
        ELSE LET b == LastBatchBefore(c)
             IN  /\ b > 0
                 /\ ~calls[b].ok
                 /\ c - b <= Len(calls[b].texts)
                 /\ calls[c].texts = <<calls[b].texts[c - b]>>
                 /\ \A d \in (c + 1)..Len(calls) :
                       calls[c].texts[1] \notin Range(calls[d].texts)

\* C18: the k-th batched call is given the k-th run of at most BATCH labels,
\* and every run gets one batched call; the individual calls come right
\* after a batched call that raised, one for each label of that call and
\* for no other label, in order, and a label that went out individually is
\* in no later call, whether its individual call raised or not; a batched
\* call that raised changes nothing in the cache, and an individual call
\* changes the cache at its own label only.
C18_Fallback ==
    /\ []C18_Calls
    /\ [][(calls' # calls /\ NewCall.fn = "translate_batch" /\ ~NewCall.ok) =>
             (cache' = cache)]_vars
    /\ [][(calls' # calls /\ NewCall.fn = "translate") =>
             (/\ DOMAIN cache' = DOMAIN cache \cup {NewCall.texts[1]}
              /\ \A L \in DOMAIN cache : cache'[L] = cache[L])]_vars

\* The priming has ended after a batched call of two labels that raised, an
\* individual call that raised, an individual call that answered, and a
\* batched call of a third label that answered.
C18_Witness ==
    /\ pc = "phase3"
    /\ Len(calls) = 4
    /\ calls[1].fn = "translate_batch" /\ ~calls[1].ok
    /\ Len(calls[1].texts) = 2
    /\ calls[2].fn = "translate" /\ ~calls[2].ok
    /\ calls[3].fn = "translate" /\ calls[3].ok
    /\ calls[4].fn = "translate_batch" /\ calls[4].ok
    /\ calls[4].texts[1] \notin Range(calls[1].texts)

\* ------------------------------------------------------------------ C19

\* The call that gave the cache its value for the key L: the last call that
\* was given L; and the place of L among the texts of a call.
WriterOf(L) ==
    LET C == {c \in 1..Len(calls) : L \in Range(calls[c].texts)}
    IN  CHOOSE c \in C : \A d \in C : d <= c
PlaceIn(c, L) == CHOOSE p \in 1..Len(calls[c].texts) : calls[c].texts[p] = L

\* C19: every value of the cache is a non-empty text: the translator's
\* answer for the key when the call answered and the answer is not empty,
\* the key itself when the answer is empty or missing or the call raised;
\* and every feature written with a non-empty title_en has a non-empty
\* title.
C19_NonEmptyValues ==
    /\ \A L \in DOMAIN cache :
          /\ cache[L] # <<>>
          /\ L \in SentTexts
          /\ LET c == WriterOf(L)
                 given == IF calls[c].ok
                          THEN calls[c].answer[PlaceIn(c, L)] ELSE <<>>
             IN  cache[L] = IF given # <<>> THEN given ELSE L
    /\ \A y \in Years :
          shp[y].written =>
              \A k \in 1..Len(shp[y].rows) :
                  shp[y].rows[k].title_en # <<>> =>
                      shp[y].rows[k].title # <<>>

\* A finished run has in its cache a label whose batched call answered with
\* an empty result, a label whose individual call raised, both kept as their
\* own values, and a label with a translation; the first is written as the
\* title of a feature.
C19_Witness ==
    /\ pc = "done"
    /\ \E L \in DOMAIN cache :
          /\ calls[WriterOf(L)].fn = "translate_batch"
          /\ calls[WriterOf(L)].ok
          /\ calls[WriterOf(L)].answer[PlaceIn(WriterOf(L), L)] = <<>>
          /\ cache[L] = L
          /\ \E y \in Years :
                /\ shp[y].written
                /\ \E k \in 1..Len(shp[y].rows) :
                      shp[y].rows[k].title_en = L /\ shp[y].rows[k].title = L
    /\ \E L \in DOMAIN cache :
          /\ calls[WriterOf(L)].fn = "translate"
          /\ ~calls[WriterOf(L)].ok
          /\ cache[L] = L
    /\ \E L \in DOMAIN cache : cache[L] # L

\* ------------------------------------------------------------------ C20

\* The text is absent, empty or blank.
AbsentOrBlank(x) == ~x.some \/ Blank(x.val)

\* C20: get_title_en returns the empty text only when the name:en value and
\* the raw name are both absent, empty or blank; so a feature with no
\* Chinese candidate and a raw name that is not blank gets a label that
\* discovery records for translation.
C20_EmptyOnlyWhenBothBlank ==
    (ret.fn = "get_title_en" /\ ~ret.raised) =>
        /\ ret.opt.val = <<>> =>
              /\ AbsentOrBlank(get(arg.raw.m, EN_KEY))
              /\ Blank(arg.name)
        /\ (NoCandidate(Row(arg.raw, arg.name)) /\ ~Blank(arg.name)) =>
              /\ ret.opt.val # <<>>
              /\ needs_of(Row(arg.raw, arg.name)) = <<ret.opt.val>>

====
